---- MODULE Spec2Model ----
(***************************************************************************)
(* odysian/url-shortener: the link store (PostgreSQL via SQLAlchemy), the  *)
(* resolution cache (Redis), the request handlers of routers/links.py,     *)
(* routers/redirect.py and routers/auth.py and the deferred click recorder.*)
(*                                                                         *)
(* The handlers of routers/links.py are plain `def` routes (FastAPI runs   *)
(* them on a thread pool) and several workers may serve redirects, so a    *)
(* request is a process that takes one step per store or cache call; the   *)
(* Python code between two calls belongs to the step of the call before it.*)
(***************************************************************************)
EXTENDS Integers, Sequences, FiniteSets, TLC

VARIABLES
    links,      \* rows of table "links" (db_models.Link)
    nextId,     \* the sequence behind links.id
    clicks,     \* rows of table "clicks" (db_models.Click), in insertion order
    cache,      \* Redis keys "link:{short_code}" -> serialized entry, or None
    tasks,      \* BackgroundTasks: pending record_click jobs per link id
    now,        \* datetime.now(timezone.utc)
    procs,      \* the requests in flight: position and locals of each handler
    resp,       \* the response the last step sent, if it sent one
    redirects,  \* history: how many 302 answers each link id was given
    started,    \* how many requests have arrived
    workers,    \* how many requests the deployment serves at once
    redis_faults, \* whether calls to Redis can fail (refused, 5 s socket timeout)
    stats_cache, \* Redis keys "stats:user_{id}" -> serialized stats and expiry time
    users,      \* rows of table "users" (db_models.User)
    nextUserId  \* the sequence behind users.id

vars == <<links, nextId, clicks, cache, tasks, now, procs, resp, redirects,
          started, workers, redis_faults, stats_cache, users, nextUserId>>

\* Python's None, per type: a string, a short code, a timestamp, a cache value
None == "None"
NoCode == <<>>
NoTime == -1
NoIso == <<>>
NoEntry == [id |-> 0, url |-> None, expires_at |-> NoIso]
\* no stats object, no key "stats:user_{id}"
NoStats == [total_clicks |-> -1, clicks_today |-> -1, clicks_this_week |-> -1,
            clicks_this_month |-> -1, top_referrers |-> <<>>]
NoStatsEntry == [value |-> <<>>, until |-> 0]

------------------------------------------------------------------------------
(* Bounds of the model *)

MaxProcs == 2       \* requests in flight at once
MaxRequests == 3    \* requests that arrive in one run of overlapping requests
MaxSeqRequests == 3 \* requests that arrive in one run of requests served in turn
MaxTime == 1        \* clock ticks
MaxStatsClicks == 1 \* click rows in the store when the stats requests begin
MaxPending == 1     \* record_click jobs pending per link when they begin
MaxStatsTicks == 2  \* clock ticks while stats are requested
MaxCodeLen == 11    \* length of the custom codes given to is_valid_custom_code

(* Program constants *)

max_attempts == 3   \* create_link: candidates drawn before giving up
code_length == 6    \* create_link: generate_short_code(6)
min_custom_len == 3 \* is_valid_custom_code: len(code) < 3
max_custom_len == 10 \* is_valid_custom_code: len(code) > 10
stats_ttl == 300    \* get_click_stats: redis_client.setex(cache_key, 300, ...)
week_days == 7      \* get_click_stats: timedelta(days=7)
month_days == 30    \* get_click_stats: timedelta(days=30)
day == 86400        \* seconds from one today_start to the next

------------------------------------------------------------------------------
(* Inputs *)

Procs == 1..MaxProcs
LinkIds == 1..(IF MaxRequests > MaxSeqRequests THEN MaxRequests ELSE MaxSeqRequests)
Times == 0..MaxTime
\* expires_at values a request can carry (None, or the time of the first
\* clock reading, which is past after one tick)
ExpiryInputs == {NoTime, 0}
Users == {"alice", "bob"}
\* what every GET /{short_code} of a visitor carries: the Referer and
\* User-Agent headers and the client address
Referers == {"https://ref.example/"}
UserAgents == {"curl/8.0"}
ClientIps == {"203.0.113.7"}
Urls == {"https://a.example/", "https://b.example/"}

\* what POST /auth/register can carry
Usernames == {"testuser", "chris"}
Emails == {"test@example.com", "different@example.com"}

\* the accounts of the callers (a caller is named by its username)
Registered ==
    {[id |-> 1, username |-> "alice", email |-> "alice@example.com"],
     [id |-> 2, username |-> "bob", email |-> "bob@example.com"]}

\* string.ascii_letters + string.digits, as far as the inputs use it
Alphabet == {"a", "b", "c", "x", "y", "z", "1", "2", "3"}

abc123 == <<"a", "b", "c", "1", "2", "3">>
xyz123 == <<"x", "y", "z", "1", "2", "3">>
a_c == <<"a", "-", "c">>

\* custom_code values that pass LinkCreate (3..10 characters); NoCode is None
CustomInputs == {abc123, a_c}
\* the words the content filter flags
Profane == {<<"b", "a", "d">>}

\* generate_short_code: the candidates random.choices can return
generate_short_code(length) ==
    {c \in {abc123, xyz123} : Len(c) = length /\ \A i \in 1..Len(c) : c[i] \in Alphabet}

\* every key a request can name
Codes == {abc123, xyz123}

------------------------------------------------------------------------------
(* utils/short_code.py *)

\* (mutant) str.isalnum that accepts every character
isalnum_any(code) == code # <<>>

isalnum(code) == code # <<>> /\ \A i \in 1..Len(code) : code[i] \in Alphabet

contains_profanity(code) == code \in Profane

\* (mutant) a validation that accepts every code
is_valid_custom_code_any(code) == TRUE

is_valid_custom_code(code) ==
    IF code = <<>> THEN FALSE
    ELSE IF Len(code) < min_custom_len \/ Len(code) > max_custom_len THEN FALSE
    ELSE IF ~isalnum(code) THEN FALSE
    ELSE IF contains_profanity(code) THEN FALSE
    ELSE TRUE

------------------------------------------------------------------------------
(* The cache payload: json.dumps / json.loads, isoformat / fromisoformat *)

isoformat(t) == <<"iso", t>>
fromisoformat(s) == s[2]

\* json.dumps({"id": ..., "url": ..., "expires_at": ...})
dumps(id, url, expires_at) ==
    [id |-> id, url |-> url,
     expires_at |-> IF expires_at # NoTime THEN isoformat(expires_at) ELSE NoIso]

------------------------------------------------------------------------------
(* The store *)

\* db_session.query(Link).filter(Link.short_code == code).first()
LinkByCode(code) == {l \in links : l.short_code = code}
\* db_session.query(Link).filter(Link.id == id).first()
LinkById(id) == {l \in links : l.id = id}

ClicksOf(id) == SelectSeq(clicks, LAMBDA c : c.link_id = id)

------------------------------------------------------------------------------
(* Requests *)

\* A request's payload is drawn at the step that first reads it.
Idle == [op |-> "none", pc |-> "idle", code |-> NoCode, id |-> 0,
         url |-> None, exp |-> NoTime, lurl |-> None, lexp |-> NoTime,
         n |-> 0, user |-> None, counts |-> <<>>, at |-> NoTime,
         email |-> None]

\* The exchange a step completes: the response (status, detail, url: the
\* Location of a 302 or the original_url of a returned link) and, of the
\* request, its short code, link id, the original_url it changed (arg),
\* whether the cache or the store answered it (via) and, for a refused update
\* or delete, the caller (user).
NoResp == [op |-> "none", status |-> 0, detail |-> None, url |-> None,
           code |-> NoCode, id |-> 0, arg |-> None, via |-> None, user |-> None,
           stats |-> NoStats]

Free(p) == procs[p].pc = "idle"
InFlight(p) == ~Free(p)

\* a request arrives and takes the first free worker
Arrives(p) ==
    /\ Free(p)
    /\ p <= workers
    /\ started < (IF workers = 1 THEN MaxSeqRequests ELSE MaxRequests)
    /\ \A q \in 1..(p - 1) : InFlight(q)

\* request p moves on to r
Step(p, r) == [procs EXCEPT ![p] = r]

\* the handler returns or raises: the response is sent, its locals are gone
RespondWith(p, op, status, detail, url, code, id, arg, via) ==
    /\ procs' = Step(p, Idle)
    /\ started' = IF Free(p) THEN started + 1 ELSE started
    /\ resp' = [op |-> op, status |-> status, detail |-> detail, url |-> url,
                code |-> code, id |-> id, arg |-> arg, via |-> via, user |-> None,
                stats |-> NoStats]
    /\ redirects' = IF status = 302 THEN [redirects EXCEPT ![id] = @ + 1]
                    ELSE redirects

Respond(p, op, status, detail, url, code, id) ==
    RespondWith(p, op, status, detail, url, code, id, None, None)

\* the handler refuses current_user: raise HTTPException(status, detail)
Refuse(p, op, status, detail, code, id, user) ==
    /\ procs' = Step(p, Idle)
    /\ started' = IF Free(p) THEN started + 1 ELSE started
    /\ resp' = [NoResp EXCEPT !.op = op, !.status = status, !.detail = detail,
                              !.code = code, !.id = id, !.user = user]
    /\ UNCHANGED redirects

\* the handler goes on to its next store or cache call
Goto(p, r) ==
    /\ procs' = Step(p, r)
    /\ started' = IF Free(p) THEN started + 1 ELSE started
    /\ resp' = NoResp
    /\ UNCHANGED redirects

\* the outcomes of one call to Redis: it answers, or it raises
\* redis.ConnectionError / redis.TimeoutError
RedisRaises == IF redis_faults THEN {FALSE, TRUE} ELSE {FALSE}

\* no handler catches the exception of a Redis call: 500 Internal Server Error
RedisError(p, op, code, id) ==
    Respond(p, op, 500, "ConnectionError", None, code, id)

TypeOK ==
    /\ nextId \in 1..(started + 1)
    /\ started \in 0..(IF workers = 1 THEN MaxSeqRequests ELSE MaxRequests)
    /\ workers \in Procs
    /\ now \in Times
    /\ tasks \in [LinkIds -> Nat]
    /\ \A l \in links : l.id \in LinkIds /\ l.short_code \in Codes
    /\ \A c \in Codes : cache[c] = NoEntry \/ cache[c].id \in LinkIds

Init ==
    /\ links = {}
    /\ nextId = 1
    /\ clicks = <<>>
    /\ cache = [c \in Codes |-> NoEntry]
    /\ tasks = [i \in LinkIds |-> 0]
    /\ now = 0
    /\ procs = [p \in Procs |-> Idle]
    /\ resp = NoResp
    /\ redirects = [i \in LinkIds |-> 0]
    /\ started = 0
    /\ workers = MaxProcs
    /\ redis_faults = FALSE
    /\ stats_cache = [u \in Users |-> NoStatsEntry]
    /\ users = Registered
    /\ nextUserId = Cardinality(Registered) + 1

------------------------------------------------------------------------------
(* routers/links.py: create_link *)

\* (mutant) create_link without its pre-check query
existing_link_skipped(code) == FALSE

\* (mutant) a pre-check that takes every code for a stored one
existing_link_always(code) == TRUE

\* the pre-check: db_session.query(Link).filter(short_code == code).first()
existing_link(code) == LinkByCode(code) # {}

\* the custom-code branch: validation, then the pre-check query
CreateCustom(p) ==
    /\ Arrives(p)
    /\ \E custom \in CustomInputs :
        IF ~is_valid_custom_code(custom)
        THEN Respond(p, "create", 400, "Invalid custom code format", None, custom, 0)
        ELSE IF existing_link(custom)
        THEN Respond(p, "create", 409, "Custom link code already exists", None, custom, 0)
        ELSE Goto(p, [Idle EXCEPT !.op = "create", !.pc = "c_commit", !.code = custom])
    /\ UNCHANGED <<links, nextId, clicks, cache, tasks, now, workers, redis_faults, stats_cache, users, nextUserId>>

\* detail of the 500 raised when every candidate collided
GenerationExhausted == "Could not generate unique short code afer multiple attempts"

\* (mutant) a generation loop that goes on after the last attempt
last_attempt_never(n) == FALSE

\* for _ in range(max_attempts): the turn after n turns is the last one
last_attempt(n) == n + 1 = max_attempts

\* one turn of the generation loop: draw a candidate, query the store for it
CreateGenerate(p) ==
    /\ Arrives(p) \/ procs[p].pc = "c_generate"
    /\ procs[p].n < max_attempts
    /\ \E candidate \in generate_short_code(code_length) :
        IF ~existing_link(candidate)
        THEN Goto(p, [Idle EXCEPT !.op = "create", !.pc = "c_commit",
                                  !.code = candidate, !.n = procs[p].n + 1])
        ELSE IF last_attempt(procs[p].n)
        THEN Respond(p, "create", 500, GenerationExhausted,
                     None, candidate, 0)
        ELSE Goto(p, [Idle EXCEPT !.op = "create", !.pc = "c_generate",
                                  !.code = candidate, !.n = procs[p].n + 1])
    /\ UNCHANGED <<links, nextId, clicks, cache, tasks, now, workers, redis_faults, stats_cache, users, nextUserId>>

\* (mutant) the links table without its unique index on short_code
UniqueViolationOff(code) == FALSE

\* the unique index on links.short_code, checked by the INSERT
UniqueViolation(code) == LinkByCode(code) # {}

\* db_session.add(new_link); db_session.commit()
\* (n counts the candidates drawn: 0 on the custom-code branch)
CreateCommit(p) ==
    /\ procs[p].pc = "c_commit"
    /\ nextId' = nextId + 1
    /\ IF UniqueViolation(procs[p].code)
       THEN /\ Respond(p, "create", 500, "IntegrityError", None, procs[p].code, 0)
            /\ UNCHANGED links
       ELSE \E user \in Users, url \in Urls, exp \in ExpiryInputs :
            /\ links' = links \cup
                 {[id |-> nextId, user_id |-> user, short_code |-> procs[p].code,
                   original_url |-> url, custom_code |-> (procs[p].n = 0),
                   expires_at |-> exp, updated_at |-> "created_at"]}
            /\ Goto(p, [procs[p] EXCEPT !.pc = "c_refresh", !.id = nextId])
    /\ UNCHANGED <<clicks, cache, tasks, now, workers, redis_faults, stats_cache, users, nextUserId>>

\* db_session.refresh(new_link)
CreateRefresh(p) ==
    /\ procs[p].pc = "c_refresh"
    /\ IF LinkById(procs[p].id) = {}
       THEN Respond(p, "create", 500, "InvalidRequestError", None, procs[p].code,
                    procs[p].id)
       ELSE LET l == CHOOSE l \in LinkById(procs[p].id) : TRUE
            IN Goto(p, [procs[p] EXCEPT !.pc = "c_cache", !.lurl = l.original_url,
                                        !.lexp = l.expires_at])
    /\ UNCHANGED <<links, nextId, clicks, cache, tasks, now, workers, redis_faults, stats_cache, users, nextUserId>>

\* (mutant) create_link without its write-through to the cache
CreateCacheSkipped(p) ==
    /\ procs[p].pc = "c_cache"
    /\ Respond(p, "create", 201, None, procs[p].lurl, procs[p].code, procs[p].id)
    /\ UNCHANGED <<links, nextId, clicks, cache, tasks, now, workers, redis_faults, stats_cache, users, nextUserId>>

\* redis_client.set(cache_key, json.dumps(cache_data)); return new_link
CreateCache(p) ==
    /\ procs[p].pc = "c_cache"
    /\ \E raises \in RedisRaises :
        IF raises
        THEN /\ RedisError(p, "create", procs[p].code, procs[p].id)
             /\ UNCHANGED cache
        ELSE /\ cache' = [cache EXCEPT ![procs[p].code] =
                            dumps(procs[p].id, procs[p].lurl, procs[p].lexp)]
             /\ Respond(p, "create", 201, None, procs[p].lurl, procs[p].code,
                        procs[p].id)
    /\ UNCHANGED <<links, nextId, clicks, tasks, now, workers, redis_faults, stats_cache, users, nextUserId>>

------------------------------------------------------------------------------
(* routers/redirect.py: redirect_to_url, record_click *)

\* (mutant) the store path without its expiry check
ExpiredNever(expires_at) == FALSE

\* expires_dt < datetime.now(timezone.utc)
Expired(expires_at) == expires_at # NoTime /\ expires_at < now

\* (mutant) a redirect that schedules no job
add_task_dropped(link_id) == tasks

\* (mutant) a redirect that schedules its job twice
add_task_twice(link_id) == [tasks EXCEPT ![link_id] = @ + 2]

\* background_tasks.add_task(record_click, link_id)
add_task(link_id) == [tasks EXCEPT ![link_id] = @ + 1]

Answer(status, detail, url, id) ==
    [status |-> status, detail |-> detail, url |-> url, id |-> id]

\* the cache-hit branch: what redirect_to_url answers from a cached payload
HitAnswer(cache_data) ==
    IF cache_data.expires_at # NoIso
       /\ fromisoformat(cache_data.expires_at) < now
    THEN Answer(404, "Link has expired", None, 0)
    ELSE Answer(302, None, cache_data.url, cache_data.id)

\* the cache-miss branch: what redirect_to_url answers from the store
MissAnswer(short_code) ==
    IF LinkByCode(short_code) = {}
    THEN Answer(404, "Link not found", None, 0)
    ELSE LET link == CHOOSE l \in LinkByCode(short_code) : TRUE IN
         IF Expired(link.expires_at)
         THEN Answer(404, "Link has expired", None, 0)
         ELSE Answer(302, None, link.original_url, link.id)

\* what the cache-miss branch writes to the cache before it answers 302
MissCacheData(short_code) ==
    LET link == CHOOSE l \in LinkByCode(short_code) : TRUE
    IN dumps(link.id, link.original_url, link.expires_at)

\* GET /{short_code} served with no other step in between
redirect_to_url(short_code) ==
    IF cache[short_code] # NoEntry THEN HitAnswer(cache[short_code])
    ELSE MissAnswer(short_code)

\* GET /{short_code}: redis_client.get(cache_key) and the cache-hit branch
ResolveGet(p) ==
    /\ Arrives(p)
    /\ \E short_code \in Codes, raises \in RedisRaises :
        LET cache_data == cache[short_code] IN
        IF raises
        THEN /\ RedisError(p, "resolve", short_code, 0)
             /\ UNCHANGED tasks
        ELSE IF cache_data # NoEntry
        THEN LET a == HitAnswer(cache_data) IN
             IF a.status = 404
             THEN /\ Goto(p, [Idle EXCEPT !.op = "resolve", !.pc = "r_evict",
                                          !.code = short_code])
                  /\ UNCHANGED tasks
             ELSE /\ tasks' = add_task(a.id)
                  /\ RespondWith(p, "resolve", a.status, a.detail, a.url,
                                 short_code, a.id, None, "cache")
        ELSE /\ Goto(p, [Idle EXCEPT !.op = "resolve", !.pc = "r_query",
                                     !.code = short_code])
             /\ UNCHANGED tasks
    /\ UNCHANGED <<links, nextId, clicks, cache, now, workers, redis_faults, stats_cache, users, nextUserId>>

\* (mutant) an expired cache hit that leaves the entry where it is
evict_skipped(short_code) == cache

\* redis_client.delete(cache_key) of the expired cache hit
evict(short_code) == [cache EXCEPT ![short_code] = NoEntry]

\* the expired cache hit: redis_client.delete(cache_key), then 404
ResolveEvict(p) ==
    /\ procs[p].pc = "r_evict"
    /\ \E raises \in RedisRaises :
        IF raises
        THEN /\ RedisError(p, "resolve", procs[p].code, 0)
             /\ UNCHANGED cache
        ELSE /\ cache' = evict(procs[p].code)
             /\ RespondWith(p, "resolve", 404, "Link has expired", None,
                            procs[p].code, 0, None, "cache")
    /\ UNCHANGED <<links, nextId, clicks, tasks, now, workers, redis_faults, stats_cache, users, nextUserId>>

\* the cache miss: the store query and the checks on its row
ResolveQuery(p) ==
    /\ procs[p].pc = "r_query"
    /\ LET a == MissAnswer(procs[p].code) IN
       IF a.status = 404
       THEN RespondWith(p, "resolve", a.status, a.detail, None, procs[p].code, 0,
                        None, "store")
       ELSE LET link == CHOOSE l \in LinkByCode(procs[p].code) : TRUE IN
            Goto(p, [procs[p] EXCEPT !.pc = "r_set", !.id = link.id,
                         !.lurl = link.original_url, !.lexp = link.expires_at])
    /\ UNCHANGED <<links, nextId, clicks, cache, tasks, now, workers, redis_faults, stats_cache, users, nextUserId>>

\* redis_client.set(cache_key, json.dumps(new_cache_data)), add_task, 302
ResolveSet(p) ==
    /\ procs[p].pc = "r_set"
    /\ \E raises \in RedisRaises :
        IF raises
        THEN /\ RedisError(p, "resolve", procs[p].code, procs[p].id)
             /\ UNCHANGED <<cache, tasks>>
        ELSE /\ cache' = [cache EXCEPT ![procs[p].code] =
                            dumps(procs[p].id, procs[p].lurl, procs[p].lexp)]
             /\ tasks' = add_task(procs[p].id)
             /\ RespondWith(p, "resolve", 302, None, procs[p].lurl, procs[p].code,
                            procs[p].id, None, "store")
    /\ UNCHANGED <<links, nextId, clicks, now, workers, redis_faults, stats_cache, users, nextUserId>>

\* click = db_models.Click(link_id=link_id, clicked_at=datetime.now(...)):
\* the columns referrer, user_agent and ip_address are not set and stay NULL
Click(link_id, clicked_at) ==
    [link_id |-> link_id, clicked_at |-> clicked_at,
     referrer |-> None, user_agent |-> None, ip_address |-> None]

\* (mutant) table clicks without its foreign key
ForeignKeyOff(link_id) == FALSE

\* the foreign key clicks.link_id -> links.id, checked by the INSERT
ForeignKeyViolation(link_id) == LinkById(link_id) = {}

\* (mutant) a job queue that keeps a job whose INSERT failed, to run it again
run_once_or_retry(link_id) ==
    IF ForeignKeyViolation(link_id) THEN tasks
    ELSE [tasks EXCEPT ![link_id] = @ - 1]

\* BackgroundTasks runs each job once, whether it returns or raises
run_once(link_id) == [tasks EXCEPT ![link_id] = @ - 1]

\* a deferred job runs: record_click(link_id) on its own session; its
\* IntegrityError is raised after the response was sent and only logged
record_click(link_id) ==
    /\ tasks[link_id] > 0
    /\ tasks' = run_once(link_id)
    /\ clicks' = IF ForeignKeyViolation(link_id) THEN clicks
                 ELSE Append(clicks, Click(link_id, now))
    /\ resp' = IF ForeignKeyViolation(link_id)
               THEN [NoResp EXCEPT !.op = "record_click", !.id = link_id,
                                   !.detail = "IntegrityError"]
               ELSE NoResp
    /\ UNCHANGED <<links, nextId, cache, now, procs, redirects, started, workers, redis_faults, stats_cache, users, nextUserId>>

------------------------------------------------------------------------------
(* routers/links.py: update_link *)

\* (mutant) handlers without their ownership check
not_owner_skipped(link, user) == FALSE

\* link.user_id != current_user.id
not_owner(link, user) == link.user_id # user

\* PATCH /links/{link_id}: the query, the checks, the in-memory assignments.
\* url and exp keep the values the flush will write: an attribute set to the
\* value it was loaded with is not part of the UPDATE.
UpdateQuery(p) ==
    /\ Arrives(p)
    /\ \E link_id \in 1..nextId, user \in Users, original_url \in Urls \cup {None},
          expires_at \in ExpiryInputs :
        IF LinkById(link_id) = {}
        THEN Refuse(p, "update", 404, "Link not found", NoCode, link_id, user)
        ELSE LET link == CHOOSE l \in LinkById(link_id) : TRUE IN
             IF not_owner(link, user)
             THEN Refuse(p, "update", 403, "Not authorized to modify this link",
                         link.short_code, link_id, user)
             ELSE IF original_url = None /\ expires_at = NoTime
             THEN Respond(p, "update", 200, None, link.original_url,
                          link.short_code, link_id)
             ELSE Goto(p, [Idle EXCEPT !.op = "update", !.pc = "u_commit",
                      !.id = link_id, !.code = link.short_code, !.user = user,
                      !.url = IF original_url # link.original_url
                              THEN original_url ELSE None,
                      !.exp = IF expires_at # link.expires_at
                              THEN expires_at ELSE NoTime])
    /\ UNCHANGED <<links, nextId, clicks, cache, tasks, now, workers, redis_faults, stats_cache, users, nextUserId>>

\* (mutant) an update that rebuilds the row from the request, which has no
\* custom_code
Updated_rebuilt(l, url, exp) ==
    [l EXCEPT !.original_url = IF url # None THEN url ELSE @,
              !.expires_at = IF exp # NoTime THEN exp ELSE @,
              !.updated_at = "later",
              !.custom_code = FALSE]

\* the row after UPDATE links SET <the changed columns> WHERE id = ...
\* (updated_at is "created_at" until an update sets it to a later time)
Updated(l, url, exp) ==
    [l EXCEPT !.original_url = IF url # None THEN url ELSE @,
              !.expires_at = IF exp # NoTime THEN exp ELSE @,
              !.updated_at = "later"]

\* db_session.commit(): StaleDataError when the row is gone
UpdateCommit(p) ==
    /\ procs[p].pc = "u_commit"
    /\ IF LinkById(procs[p].id) = {}
       THEN /\ Respond(p, "update", 500, "StaleDataError", None, procs[p].code,
                       procs[p].id)
            /\ UNCHANGED links
       ELSE /\ links' = {IF l.id = procs[p].id
                         THEN Updated(l, procs[p].url, procs[p].exp) ELSE l
                         : l \in links}
            /\ Goto(p, [procs[p] EXCEPT !.pc = "u_refresh", !.exp = NoTime])
    /\ UNCHANGED <<nextId, clicks, cache, tasks, now, workers, redis_faults, stats_cache, users, nextUserId>>

\* db_session.refresh(link)
UpdateRefresh(p) ==
    /\ procs[p].pc = "u_refresh"
    /\ IF LinkById(procs[p].id) = {}
       THEN Respond(p, "update", 500, "InvalidRequestError", None, procs[p].code,
                    procs[p].id)
       ELSE LET l == CHOOSE l \in LinkById(procs[p].id) : TRUE
            IN Goto(p, [procs[p] EXCEPT !.pc = "u_cache", !.lurl = l.original_url,
                                        !.lexp = l.expires_at])
    /\ UNCHANGED <<links, nextId, clicks, cache, tasks, now, workers, redis_faults, stats_cache, users, nextUserId>>

\* (mutant) update_link that leaves the cached entry as it is
UpdateCacheEntryKept(p) == cache[procs[p].code]

\* what update_link does to the cache entry of the link
UpdateCacheEntry(p) == dumps(procs[p].id, procs[p].lurl, procs[p].lexp)

\* redis_client.set(cache_key, json.dumps(cache_data)); return link
UpdateCache(p) ==
    /\ procs[p].pc = "u_cache"
    /\ \E raises \in RedisRaises :
        IF raises
        THEN /\ RedisError(p, "update", procs[p].code, procs[p].id)
             /\ UNCHANGED cache
        ELSE /\ cache' = [cache EXCEPT ![procs[p].code] = UpdateCacheEntry(p)]
             /\ RespondWith(p, "update", 200, None, procs[p].lurl, procs[p].code,
                            procs[p].id, procs[p].url, None)
    /\ UNCHANGED <<links, nextId, clicks, tasks, now, workers, redis_faults, stats_cache, users, nextUserId>>

------------------------------------------------------------------------------
(* routers/links.py: delete_link *)

\* DELETE /links/{link_id}: the query and the checks
DeleteQuery(p) ==
    /\ Arrives(p)
    /\ \E link_id \in 1..nextId, user \in Users :
        IF LinkById(link_id) = {}
        THEN Refuse(p, "delete", 404, "Link not found", NoCode, link_id, user)
        ELSE LET link == CHOOSE l \in LinkById(link_id) : TRUE IN
             IF not_owner(link, user)
             THEN Refuse(p, "delete", 403, "Not authorized to delete this link",
                         link.short_code, link_id, user)
             ELSE Goto(p, [Idle EXCEPT !.op = "delete", !.pc = "d_cache", !.user = user,
                                       !.id = link_id, !.code = link.short_code])
    /\ UNCHANGED <<links, nextId, clicks, cache, tasks, now, workers, redis_faults, stats_cache, users, nextUserId>>

\* redis_client.delete(cache_key)
DeleteCache(p) ==
    /\ procs[p].pc = "d_cache"
    /\ \E raises \in RedisRaises :
        IF raises
        THEN /\ RedisError(p, "delete", procs[p].code, procs[p].id)
             /\ UNCHANGED cache
        ELSE /\ cache' = [cache EXCEPT ![procs[p].code] = NoEntry]
             /\ Goto(p, [procs[p] EXCEPT !.pc = "d_commit"])
    /\ UNCHANGED <<links, nextId, clicks, tasks, now, workers, redis_faults, stats_cache, users, nextUserId>>

\* (mutant) a delete that leaves the link's clicks behind
CascadeNone(id) == clicks

\* the clicks a DELETE of link id leaves: cascade="all, delete-orphan" and
\* ondelete="CASCADE" remove the link's clicks with it
Cascade(id) == SelectSeq(clicks, LAMBDA c : c.link_id # id)

\* db_session.delete(link); db_session.commit()
DeleteCommit(p) ==
    /\ procs[p].pc = "d_commit"
    /\ links' = {l \in links : l.id # procs[p].id}
    /\ clicks' = Cascade(procs[p].id)
    /\ Respond(p, "delete", 204, None, None, procs[p].code, procs[p].id)
    /\ UNCHANGED <<nextId, cache, tasks, now, workers, redis_faults, stats_cache, users, nextUserId>>

------------------------------------------------------------------------------
(* routers/links.py: get_click_stats *)

\* now.replace(hour=0, minute=0, second=0, microsecond=0)
today_start(t) == t - (t % day)

\* user_clicks(): db_session.query(Click).join(Link).filter(Link.user_id == id)
user_clicks(user) ==
    SelectSeq(clicks, LAMBDA c : \E l \in links : l.id = c.link_id /\ l.user_id = user)

\* user_clicks().filter(Click.clicked_at >= since).count()
count_since(user, since) ==
    Len(SelectSeq(user_clicks(user), LAMBDA c : c.clicked_at >= since))

\* json.dumps(stats) and json.loads(cached_stats)
stats_dumps(stats) ==
    <<stats.total_clicks, stats.clicks_today, stats.clicks_this_week,
      stats.clicks_this_month, stats.top_referrers>>
stats_loads(value) ==
    [total_clicks |-> value[1], clicks_today |-> value[2],
     clicks_this_week |-> value[3], clicks_this_month |-> value[4],
     top_referrers |-> value[5]]

\* (mutant) a lookup that never finds the key
stats_cached_never(user) == FALSE

\* redis_client.get(cache_key) finds the key: it was set and has not expired
stats_cached(user) ==
    stats_cache[user] # NoStatsEntry /\ now < stats_cache[user].until

\* return stats / return stats_dict
RespondStats(p, user, stats, via) ==
    /\ procs' = Step(p, Idle)
    /\ started' = IF Free(p) THEN started + 1 ELSE started
    /\ resp' = [NoResp EXCEPT !.op = "stats", !.status = 200, !.user = user,
                              !.stats = stats, !.via = via]
    /\ UNCHANGED redirects

\* GET /clicks/stats: redis_client.get(cache_key); on a miss, now and the
\* three period starts
StatsGet(p) ==
    /\ Arrives(p)
    /\ \E user \in Users, raises \in RedisRaises :
        IF raises THEN RedisError(p, "stats", NoCode, 0)
        ELSE IF stats_cached(user)
        THEN RespondStats(p, user, stats_loads(stats_cache[user].value), "cache")
        ELSE Goto(p, [Idle EXCEPT !.op = "stats", !.pc = "s_total", !.user = user,
                                  !.at = now])
    /\ UNCHANGED <<links, nextId, clicks, cache, tasks, now, workers, redis_faults, stats_cache, users, nextUserId>>

\* total_clicks = user_clicks().count()
StatsTotal(p) ==
    /\ procs[p].pc = "s_total"
    /\ Goto(p, [procs[p] EXCEPT !.pc = "s_today",
                    !.counts = <<Len(user_clicks(procs[p].user))>>])
    /\ UNCHANGED <<links, nextId, clicks, cache, tasks, now, workers, redis_faults, stats_cache, users, nextUserId>>

\* clicks_today = user_clicks().filter(clicked_at >= today_start).count()
StatsToday(p) ==
    /\ procs[p].pc = "s_today"
    /\ Goto(p, [procs[p] EXCEPT !.pc = "s_week",
                    !.counts = Append(@, count_since(procs[p].user,
                                                     today_start(procs[p].at)))])
    /\ UNCHANGED <<links, nextId, clicks, cache, tasks, now, workers, redis_faults, stats_cache, users, nextUserId>>

\* clicks_this_week = user_clicks().filter(clicked_at >= week_start).count()
StatsWeek(p) ==
    /\ procs[p].pc = "s_week"
    /\ Goto(p, [procs[p] EXCEPT !.pc = "s_month",
                    !.counts = Append(@, count_since(procs[p].user,
                                   today_start(procs[p].at) - week_days * day))])
    /\ UNCHANGED <<links, nextId, clicks, cache, tasks, now, workers, redis_faults, stats_cache, users, nextUserId>>

\* clicks_this_month = user_clicks().filter(clicked_at >= month_start).count()
StatsMonth(p) ==
    /\ procs[p].pc = "s_month"
    /\ Goto(p, [procs[p] EXCEPT !.pc = "s_referrers",
                    !.counts = Append(@, count_since(procs[p].user,
                                   today_start(procs[p].at) - month_days * day))])
    /\ UNCHANGED <<links, nextId, clicks, cache, tasks, now, workers, redis_faults, stats_cache, users, nextUserId>>

\* the referrers query: Click.referrer.isnot(None) holds for no row, because
\* record_click sets no referrer
StatsReferrers(p) ==
    /\ procs[p].pc = "s_referrers"
    /\ Goto(p, [procs[p] EXCEPT !.pc = "s_setex"])
    /\ UNCHANGED <<links, nextId, clicks, cache, tasks, now, workers, redis_faults, stats_cache, users, nextUserId>>

\* the stats dict built from the locals
stats_of(counts) ==
    [total_clicks |-> counts[1], clicks_today |-> counts[2],
     clicks_this_week |-> counts[3], clicks_this_month |-> counts[4],
     top_referrers |-> <<>>]

\* redis_client.setex(cache_key, 300, json.dumps(stats)); return stats
StatsSetex(p) ==
    /\ procs[p].pc = "s_setex"
    /\ \E raises \in RedisRaises :
        IF raises
        THEN /\ RedisError(p, "stats", NoCode, 0)
             /\ UNCHANGED stats_cache
        ELSE /\ stats_cache' = [stats_cache EXCEPT ![procs[p].user] =
                    [value |-> stats_dumps(stats_of(procs[p].counts)),
                     until |-> now + stats_ttl]]
             /\ RespondStats(p, procs[p].user, stats_of(procs[p].counts), "store")
    /\ UNCHANGED <<links, nextId, clicks, cache, tasks, now, workers, redis_faults, users, nextUserId>>

------------------------------------------------------------------------------
(* routers/auth.py: register_user *)

\* db_session.query(User).filter(User.username == username).first()
UserByName(username) == {u \in users : u.username = username}
\* db_session.query(User).filter(User.email == email).first()
UserByEmail(email) == {u \in users : u.email = email}

\* POST /auth/register: the username query and its check
RegisterName(p) ==
    /\ Arrives(p)
    /\ \E username \in Usernames, email \in Emails :
        IF UserByName(username) # {}
        THEN Refuse(p, "register", 400, "Username already taken", NoCode, 0, username)
        ELSE Goto(p, [Idle EXCEPT !.op = "register", !.pc = "g_email",
                                  !.user = username, !.email = email])
    /\ UNCHANGED <<links, nextId, clicks, cache, tasks, now, workers, redis_faults, stats_cache, users, nextUserId>>

\* the email query and its check
RegisterEmail(p) ==
    /\ procs[p].pc = "g_email"
    /\ IF UserByEmail(procs[p].email) # {}
       THEN Refuse(p, "register", 400, "Email already registered", NoCode, 0,
                   procs[p].user)
       ELSE Goto(p, [procs[p] EXCEPT !.pc = "g_commit"])
    /\ UNCHANGED <<links, nextId, clicks, cache, tasks, now, workers, redis_faults, stats_cache, users, nextUserId>>

\* db_session.add(new_user); db_session.commit(): the unique indexes on
\* users.username and users.email are checked by the INSERT
RegisterCommit(p) ==
    /\ procs[p].pc = "g_commit"
    /\ nextUserId' = nextUserId + 1
    /\ IF UserByName(procs[p].user) # {} \/ UserByEmail(procs[p].email) # {}
       THEN /\ Refuse(p, "register", 500, "IntegrityError", NoCode, 0, procs[p].user)
            /\ UNCHANGED users
       ELSE /\ users' = users \cup {[id |-> nextUserId, username |-> procs[p].user,
                                      email |-> procs[p].email]}
            /\ Goto(p, [procs[p] EXCEPT !.pc = "g_refresh", !.id = nextUserId])
    /\ UNCHANGED <<links, nextId, clicks, cache, tasks, now, workers, redis_faults, stats_cache>>

\* db_session.refresh(new_user); return new_user
RegisterRefresh(p) ==
    /\ procs[p].pc = "g_refresh"
    /\ Refuse(p, "register", 201, None, NoCode, procs[p].id, procs[p].user)
    /\ UNCHANGED <<links, nextId, clicks, cache, tasks, now, workers, redis_faults, stats_cache, users, nextUserId>>

------------------------------------------------------------------------------
(* The environment *)

\* the whole cache is cleared (FLUSHDB, a restart of Redis)
ClearCache ==
    /\ \/ \E c \in Codes : cache[c] # NoEntry
       \/ \E u \in Users : stats_cache[u] # NoStatsEntry
    /\ cache' = [c \in Codes |-> NoEntry]
    /\ stats_cache' = [u \in Users |-> NoStatsEntry]
    /\ resp' = NoResp
    /\ UNCHANGED <<links, nextId, clicks, tasks, now, procs, redirects, started, workers, redis_faults, users, nextUserId>>

\* time passes
Tick ==
    /\ now < MaxTime
    /\ now' = now + 1
    /\ resp' = NoResp
    /\ UNCHANGED <<links, nextId, clicks, cache, tasks, procs, redirects, started, workers, redis_faults, stats_cache, users, nextUserId>>

------------------------------------------------------------------------------

Next ==
    \/ \E p \in Procs :
        \/ CreateCustom(p)
        \/ CreateGenerate(p)
        \/ CreateCommit(p)
        \/ CreateRefresh(p)
        \/ CreateCache(p)
        \/ ResolveGet(p)
        \/ ResolveEvict(p)
        \/ ResolveQuery(p)
        \/ ResolveSet(p)
        \/ UpdateQuery(p)
        \/ UpdateCommit(p)
        \/ UpdateRefresh(p)
        \/ UpdateCache(p)
        \/ DeleteQuery(p)
        \/ DeleteCache(p)
        \/ DeleteCommit(p)
    \/ \E link_id \in LinkIds : record_click(link_id)
    \/ ClearCache
    \/ Tick

\* a deployment that serves overlapping requests
Spec == Init /\ [][Next]_vars

\* a deployment (or a client) that lets one request finish before the next
InitSeq ==
    /\ links = {}
    /\ nextId = 1
    /\ clicks = <<>>
    /\ cache = [c \in Codes |-> NoEntry]
    /\ tasks = [i \in LinkIds |-> 0]
    /\ now = 0
    /\ procs = [p \in Procs |-> Idle]
    /\ resp = NoResp
    /\ redirects = [i \in LinkIds |-> 0]
    /\ started = 0
    /\ workers = 1
    /\ redis_faults = FALSE
    /\ stats_cache = [u \in Users |-> NoStatsEntry]
    /\ users = Registered
    /\ nextUserId = Cardinality(Registered) + 1

SpecSeq == InitSeq /\ [][Next]_vars

\* requests served in turn while Redis is unreliable
InitOutage ==
    /\ links = {}
    /\ nextId = 1
    /\ clicks = <<>>
    /\ cache = [c \in Codes |-> NoEntry]
    /\ tasks = [i \in LinkIds |-> 0]
    /\ now = 0
    /\ procs = [p \in Procs |-> Idle]
    /\ resp = NoResp
    /\ redirects = [i \in LinkIds |-> 0]
    /\ started = 0
    /\ workers = 1
    /\ redis_faults = TRUE
    /\ stats_cache = [u \in Users |-> NoStatsEntry]
    /\ users = Registered
    /\ nextUserId = Cardinality(Registered) + 1

SpecOutage == InitOutage /\ [][Next]_vars

------------------------------------------------------------------------------
(* Calls of is_valid_custom_code *)

InputChars == {"a", "-"}
\* the arguments: every string over InputChars up to MaxCodeLen characters
\* (the empty one stands for "" and for None), a flagged word, a mixed code
CodeInputs ==
    UNION {[1..n -> InputChars] : n \in 0..MaxCodeLen} \cup Profane \cup {abc123}

InitValidate ==
    /\ links = {}
    /\ nextId = 1
    /\ clicks = <<>>
    /\ cache = [c \in Codes |-> NoEntry]
    /\ tasks = [i \in LinkIds |-> 0]
    /\ now = 0
    /\ \E code \in CodeInputs :
          procs = [p \in Procs |-> IF p = 1
                                   THEN [Idle EXCEPT !.op = "validate", !.pc = "v_call",
                                                     !.code = code]
                                   ELSE Idle]
    /\ resp = NoResp
    /\ redirects = [i \in LinkIds |-> 0]
    /\ started = 0
    /\ workers = 1
    /\ redis_faults = FALSE
    /\ stats_cache = [u \in Users |-> NoStatsEntry]
    /\ users = Registered
    /\ nextUserId = Cardinality(Registered) + 1

\* is_valid_custom_code(code) is called and returns (200: True, 400: False)
Validate(p) ==
    /\ procs[p].pc = "v_call"
    /\ procs' = Step(p, Idle)
    /\ resp' = [NoResp EXCEPT !.op = "validate", !.code = procs[p].code,
                              !.status = IF is_valid_custom_code(procs[p].code)
                                         THEN 200 ELSE 400]
    /\ UNCHANGED <<links, nextId, clicks, cache, tasks, now, redirects, started, workers, redis_faults, stats_cache, users, nextUserId>>

NextValidate == \E p \in Procs : Validate(p)

SpecValidate == InitValidate /\ [][NextValidate]_vars

------------------------------------------------------------------------------
(* Stats requests against a store that already has links, clicks and jobs *)

\* noon of a day late enough for clicks more than a month old
StatsStart == 40 * day + day \div 2
\* clicked_at of the rows already stored: over a month ago, over a week ago,
\* yesterday, today
ClickTimes == {StatsStart - (month_days + 1) * day, StatsStart - (week_days + 1) * day,
               StatsStart - day, StatsStart}
\* half a freshness window passes
Lapse == stats_ttl \div 2

StoredLink(id, user, code) ==
    [id |-> id, user_id |-> user, short_code |-> code,
     original_url |-> "https://a.example/", custom_code |-> TRUE,
     expires_at |-> NoTime, updated_at |-> "created_at"]

\* rows of clicks in insertion order, which is the order of clicked_at
StoredClicks ==
    {cs \in UNION {[1..n -> {Click(id, t) : id \in {1, 2}, t \in ClickTimes}]
                     : n \in 0..MaxStatsClicks} :
        \A i \in 1..(Len(cs) - 1) : cs[i].clicked_at <= cs[i + 1].clicked_at}

\* two links were created (the second by either user) and redirected to; the
\* cache has been cleared; requests are served in turn, jobs between them
InitStats ==
    /\ \E user \in Users :
          links = {StoredLink(1, "alice", abc123), StoredLink(2, user, xyz123)}
    /\ nextId = 3
    /\ clicks \in StoredClicks
    /\ tasks \in {t \in [LinkIds -> 0..MaxPending] : \A i \in LinkIds : i > 2 => t[i] = 0}
    /\ redirects = [i \in LinkIds |-> Len(ClicksOf(i)) + tasks[i]]
    /\ cache = [c \in Codes |-> NoEntry]
    /\ stats_cache = [u \in Users |-> NoStatsEntry]
    /\ users = Registered
    /\ nextUserId = Cardinality(Registered) + 1
    /\ now = StatsStart
    /\ procs = [p \in Procs |-> Idle]
    /\ resp = NoResp
    /\ started = 0
    /\ workers = 1
    /\ redis_faults = FALSE

\* a record_click job; when requests are served in turn it runs before the
\* next request is sent
StatsJob(link_id) ==
    /\ workers = 1 => \A p \in Procs : Free(p)
    /\ record_click(link_id)

\* time passes
Elapse ==
    /\ now < StatsStart + MaxStatsTicks * Lapse
    /\ now' = now + Lapse
    /\ resp' = NoResp
    /\ UNCHANGED <<links, nextId, clicks, cache, tasks, procs, redirects, started, workers, redis_faults, stats_cache, users, nextUserId>>

NextStats ==
    \/ \E p \in Procs :
        \/ StatsGet(p)
        \/ StatsTotal(p)
        \/ StatsToday(p)
        \/ StatsWeek(p)
        \/ StatsMonth(p)
        \/ StatsReferrers(p)
        \/ StatsSetex(p)
        \/ DeleteQuery(p)
        \/ DeleteCache(p)
        \/ DeleteCommit(p)
    \/ \E link_id \in LinkIds : StatsJob(link_id)
    \/ Elapse

SpecStatsSeq == InitStats /\ [][NextStats]_vars

\* the same store at one moment, when requests overlap and record_click
\* jobs run at any time
InitStatsOverlap ==
    /\ links = {StoredLink(1, "alice", abc123), StoredLink(2, "bob", xyz123)}
    /\ nextId = 3
    /\ clicks \in StoredClicks
    /\ tasks \in {t \in [LinkIds -> 0..MaxPending] : \A i \in LinkIds : i > 2 => t[i] = 0}
    /\ redirects = [i \in LinkIds |-> Len(ClicksOf(i)) + tasks[i]]
    /\ cache = [c \in Codes |-> NoEntry]
    /\ stats_cache = [u \in Users |-> NoStatsEntry]
    /\ users = Registered
    /\ nextUserId = Cardinality(Registered) + 1
    /\ now = StatsStart
    /\ procs = [p \in Procs |-> Idle]
    /\ resp = NoResp
    /\ started = 0
    /\ workers = MaxProcs
    /\ redis_faults = FALSE

NextStatsOverlap ==
    \/ \E p \in Procs :
        \/ StatsGet(p)
        \/ StatsTotal(p)
        \/ StatsToday(p)
        \/ StatsWeek(p)
        \/ StatsMonth(p)
        \/ StatsReferrers(p)
        \/ StatsSetex(p)
        \/ DeleteQuery(p)
        \/ DeleteCache(p)
        \/ DeleteCommit(p)
    \/ \E link_id \in LinkIds : record_click(link_id)

SpecStats == InitStatsOverlap /\ [][NextStatsOverlap]_vars

------------------------------------------------------------------------------
(* Registrations against an empty table of users *)

InitAuth ==
    /\ links = {}
    /\ nextId = 1
    /\ clicks = <<>>
    /\ cache = [c \in Codes |-> NoEntry]
    /\ tasks = [i \in LinkIds |-> 0]
    /\ now = 0
    /\ procs = [p \in Procs |-> Idle]
    /\ resp = NoResp
    /\ redirects = [i \in LinkIds |-> 0]
    /\ started = 0
    /\ workers = MaxProcs
    /\ redis_faults = FALSE
    /\ stats_cache = [u \in Users |-> NoStatsEntry]
    /\ users = {}
    /\ nextUserId = 1

NextAuth ==
    \E p \in Procs :
        \/ RegisterName(p)
        \/ RegisterEmail(p)
        \/ RegisterCommit(p)
        \/ RegisterRefresh(p)

SpecAuth == InitAuth /\ [][NextAuth]_vars

------------------------------------------------------------------------------
(* Properties *)

\* C1: in every reachable state, also those reached by overlapping create_link
\* calls with custom or generated codes, no two rows of links have the same
\* short_code.
UniqueShortCodes ==
    \A l1 \in links, l2 \in links : l1.short_code = l2.short_code => l1.id = l2.id

\* C1 witness: two creates passed the pre-check for the same code; one row is
\* stored and the commit of the other was just refused.
RacingCreateRefused ==
    /\ resp.op = "create"
    /\ resp.detail = "IntegrityError"
    /\ Cardinality(LinkByCode(resp.code)) = 1

\* C2 (as claimed): a create_link whose commit violates the uniqueness of
\* short_code answers 409 CodeConflict (custom code) or 500 GenerationExhausted
\* (generated code), and adds no row and writes no cache entry.
CommitConflictSurfaced ==
    [][\A p \in Procs :
        (/\ procs[p].pc = "c_commit"
         /\ UniqueViolation(procs[p].code)
         /\ procs'[p].pc # "c_commit")
        => /\ links' = links
           /\ cache' = cache
           /\ IF procs[p].n = 0
              THEN /\ resp'.status = 409
                   /\ resp'.detail = "Custom link code already exists"
              ELSE /\ resp'.status = 500
                   /\ resp'.detail = GenerationExhausted]_vars


\* C3: right after update_link has changed a link's original_url (requests
\* served in turn), a resolve of its short_code redirects to the new URL,
\* never to the one cached before; it answers 404 only for an expired link.
UpdateThenResolve ==
    (resp.op = "update" /\ resp.status = 200 /\ resp.arg # None) =>
        LET a == redirect_to_url(resp.code)
            link == CHOOSE l \in LinkById(resp.id) : TRUE
        IN /\ LinkById(resp.id) # {}
           /\ link.original_url = resp.arg
           /\ resp.url = resp.arg
           /\ a.status = 302 => a.url = resp.arg /\ a.id = resp.id
           /\ a.status = 404 => a.detail = "Link has expired"
                                /\ Expired(link.expires_at)

\* C3 witness: the link had been redirected to its old URL, then update_link
\* changed the URL, and a resolve now redirects to the new one.
UpdatedAfterRedirect ==
    /\ resp.op = "update" /\ resp.status = 200 /\ resp.arg # None
    /\ redirects[resp.id] > 0
    /\ redirect_to_url(resp.code).status = 302
    /\ redirect_to_url(resp.code).url = resp.arg

\* C4: right after delete_link by the owner (requests served in turn) the cache
\* has no entry for the short_code, no click row has the link's id and a
\* resolve answers not-found; no cache entry and no click outlives its link,
\* and every resolve of a code with no link answers 404.
DeleteLeavesNothing ==
    /\ (resp.op = "delete" /\ resp.status = 204) =>
        /\ LinkById(resp.id) = {}
        /\ cache[resp.code] = NoEntry
        /\ ClicksOf(resp.id) = <<>>
        /\ LinkByCode(resp.code) = {} =>
              redirect_to_url(resp.code) = Answer(404, "Link not found", None, 0)
    /\ \A c \in Codes : LinkByCode(c) = {} => cache[c] = NoEntry
    /\ \A i \in 1..Len(clicks) : LinkById(clicks[i].link_id) # {}
    /\ (resp.op = "resolve" /\ LinkByCode(resp.code) = {}) => resp.status = 404

\* C4 witness: a link that had been redirected to, whose click job had run,
\* was just deleted.
DeletedAfterClick ==
    /\ resp.op = "delete" /\ resp.status = 204
    /\ redirects[resp.id] > 0
    /\ tasks[resp.id] = 0

\* C5: right after create_link returned a link that is not expired (requests
\* served in turn), the cache holds its entry and the cache-hit branch
\* redirects to its original_url; the cache-miss branch (the cache cleared)
\* redirects to the same URL and writes the same entry back. Every resolve
\* answered 302 carries the stored original_url and leaves the entry cached.
RoundTrip ==
    /\ (resp.op = "create" /\ resp.status = 201) =>
        LET link == CHOOSE l \in LinkById(resp.id) : TRUE IN
        /\ LinkById(resp.id) # {}
        /\ link.short_code = resp.code
        /\ link.original_url = resp.url
        /\ ~Expired(link.expires_at) =>
            /\ cache[resp.code] # NoEntry
            /\ HitAnswer(cache[resp.code]) = Answer(302, None, resp.url, resp.id)
            /\ MissAnswer(resp.code) = Answer(302, None, resp.url, resp.id)
            /\ MissCacheData(resp.code) = cache[resp.code]
    /\ (resp.op = "resolve" /\ resp.status = 302) =>
        LET link == CHOOSE l \in LinkById(resp.id) : TRUE IN
        /\ LinkById(resp.id) # {}
        /\ link.short_code = resp.code
        /\ resp.url = link.original_url
        /\ cache[resp.code] = dumps(link.id, link.original_url, link.expires_at)

\* C5 witness: a link as created was redirected to twice, the second time from
\* the store after the cache had lost its entry.
SecondResolveFromStore ==
    /\ resp.op = "resolve" /\ resp.status = 302 /\ resp.via = "store"
    /\ redirects[resp.id] = 2
    /\ \E l \in LinkById(resp.id) : l.updated_at = "created_at"

\* C6 (as claimed): clearing the cache never changes what a later resolve
\* answers: whenever no request is in flight, every short code gets the same
\* answer from the cache as it would get from the store alone.
ClearIsInvisible ==
    (\A p \in Procs : Free(p)) =>
        \A c \in Codes : redirect_to_url(c) = MissAnswer(c)

\* the request that arrives in this step is a resolve of code c
ResolveArrived(c) ==
    /\ started' = started + 1
    /\ \/ resp'.op = "resolve" /\ resp'.code = c
       \/ \E p \in Procs : Free(p) /\ procs'[p].op = "resolve" /\ procs'[p].code = c

\* C7: a resolve of a short_code whose link expired before the resolution
\* time (requests served in turn) ends in 404, on the cache path (the entry is
\* evicted first) and on the store path, and schedules no click job.
ExpiredNotRedirected ==
    [][/\ \A c \in Codes :
            (/\ ResolveArrived(c)
             /\ cache[c] # NoEntry
             /\ \E l \in LinkByCode(c) : l.expires_at # NoTime /\ l.expires_at < now)
            => /\ \E p \in Procs : procs'[p].pc = "r_evict" /\ procs'[p].code = c
               /\ resp' = NoResp
               /\ tasks' = tasks /\ clicks' = clicks /\ redirects' = redirects
       /\ \A p \in Procs :
            (procs[p].pc = "r_evict" /\ procs'[p] # procs[p])
            => /\ resp'.status = 404
               /\ tasks' = tasks /\ clicks' = clicks /\ redirects' = redirects
       /\ \A p \in Procs :
            (/\ procs[p].pc = "r_query" /\ procs'[p] # procs[p]
             /\ \E l \in LinkByCode(procs[p].code) :
                    l.expires_at # NoTime /\ l.expires_at < now)
            => /\ resp'.status = 404
               /\ cache' = cache
               /\ tasks' = tasks /\ clicks' = clicks /\ redirects' = redirects
      ]_vars

\* C7 witness: an expired link was found in the store (its cache entry had
\* been evicted or cleared) and the resolve answered 404.
ExpiredFromStore ==
    /\ resp.op = "resolve" /\ resp.status = 404 /\ resp.via = "store"
    /\ \E l \in LinkByCode(resp.code) : l.expires_at # NoTime /\ l.expires_at < now
    /\ \A i \in LinkIds : tasks[i] = 0 /\ redirects[i] = 0

\* C8: for every stored link the click rows plus the pending jobs are exactly
\* the 302 answers given for it (no click lost, none duplicated, whatever the
\* interleaving of hits and misses), and every 302 given for a link that was
\* never updated carries the same URL, its original_url.
ClicksMatchRedirects ==
    /\ \A l \in links : Len(ClicksOf(l.id)) + tasks[l.id] = redirects[l.id]
    /\ (resp.op = "resolve" /\ resp.status = 302) =>
        \A l \in LinkById(resp.id) :
            l.updated_at = "created_at" => resp.url = l.original_url

\* C8 witness: a resolve was just answered 302, the first for its link, while
\* another resolve of the same link, which missed the cache and read the
\* store, is still in flight.
OverlappingResolves ==
    /\ resp.op = "resolve" /\ resp.status = 302
    /\ \E p \in Procs : procs[p].pc = "r_set" /\ procs[p].id = resp.id
    /\ \E l \in LinkById(resp.id) : redirects[l.id] = 1

\* the request that arrives in this step is a create with custom code c
CustomArrived(c) ==
    /\ started' = started + 1
    /\ \/ resp'.op = "create" /\ resp'.code = c /\ resp'.status \in {400, 409}
       \/ \E p \in Procs : /\ Free(p) /\ procs'[p].op = "create"
                           /\ procs'[p].n = 0 /\ procs'[p].code = c

\* C9: create_link with a custom code that a stored link already has answers
\* 409 and changes neither the store nor the cache: no second row with the
\* code, the existing link's cache entry as it was.
CustomConflictRejected ==
    [][\A c \in CustomInputs :
        (CustomArrived(c) /\ LinkByCode(c) # {})
        => /\ resp'.op = "create" /\ resp'.status = 409
           /\ resp'.detail = "Custom link code already exists"
           /\ links' = links /\ nextId' = nextId
           /\ cache' = cache
           /\ \A p \in Procs : procs'[p].op # "create"]_vars

\* C9 witness: a create was just refused with 409 while the existing link and
\* its cache entry are in place.
ConflictAnswered ==
    /\ resp.op = "create" /\ resp.status = 409
    /\ \E l \in LinkByCode(resp.code) :
          cache[resp.code] = dumps(l.id, l.original_url, l.expires_at)

\* the candidate request p drew in this step
Drawn(p) == IF procs'[p].op = "create" THEN procs'[p].code ELSE resp'.code

\* C10: a create_link without custom code whose third candidate collides, after
\* two that collided, answers 500 GenerationExhausted,
\* adds no row and writes no cache entry; that answer is given only then, and
\* no request draws a fourth candidate.
ThreeCollisionsExhaust ==
    [][/\ \A p \in Procs :
            (procs[p].pc = "c_generate" /\ procs[p].n = 2 /\ procs'[p] # procs[p])
            => IF LinkByCode(Drawn(p)) # {}
               THEN /\ resp'.op = "create" /\ resp'.status = 500
                    /\ resp'.detail = GenerationExhausted
                    /\ procs'[p] = Idle
                    /\ links' = links /\ cache' = cache /\ nextId' = nextId
               ELSE procs'[p].pc = "c_commit" /\ procs'[p].n = 3
       /\ resp'.detail = GenerationExhausted
            => \E p \in Procs : procs[p].pc = "c_generate" /\ procs[p].n = 2
       /\ \A p \in Procs :
            /\ procs'[p].n <= 3
            /\ procs'[p].pc = "c_generate" => procs'[p].n \in {1, 2}
      ]_vars

\* C10 witness: three candidates collided and the create was just refused,
\* with the colliding link still the only row of its code.
GenerationGaveUp ==
    /\ resp.op = "create" /\ resp.status = 500
    /\ resp.detail = GenerationExhausted
    /\ Cardinality(LinkByCode(resp.code)) = 1


\* request p draws a candidate in this step
Draws(p) ==
    \/ Free(p) /\ procs'[p].op = "create" /\ procs'[p].n = 1
    \/ procs[p].pc = "c_generate" /\ procs'[p] # procs[p]

\* C11: when a candidate drawn by create_link (the first, or the one after one
\* or two collisions) is not a stored code, the request goes on to insert
\* exactly one row with that candidate as short_code, draws no further
\* candidate and answers 201 with it.
RetrySucceeds ==
    [][\A p \in Procs :
        /\ (Draws(p) /\ LinkByCode(Drawn(p)) = {})
            => /\ procs'[p].pc = "c_commit"
               /\ procs'[p].code = Drawn(p)
               /\ procs'[p].n = procs[p].n + 1
               /\ links' = links
        /\ (procs[p].pc = "c_commit" /\ procs[p].n >= 1 /\ procs'[p] # procs[p])
            => /\ procs'[p].pc = "c_refresh"
               /\ procs'[p].code = procs[p].code
               /\ Cardinality(links') = Cardinality(links) + 1
               /\ \E l \in links' : /\ links' = links \cup {l}
                                    /\ l.short_code = procs[p].code
                                    /\ l.id = procs'[p].id
        /\ (procs[p].pc \in {"c_refresh", "c_cache"} /\ procs'[p] # procs[p])
            => /\ links' = links
               /\ procs'[p].pc \in {"c_cache", "idle"}
               /\ procs'[p].pc = "idle"
                    => /\ resp'.status = 201
                       /\ resp'.code = procs[p].code
                       /\ resp'.id = procs[p].id
      ]_vars

\* C11 witness: two candidates collided, the third did not and its row, the
\* second of the store, was just inserted.
ThirdCandidateStored ==
    \E p \in Procs :
        /\ procs[p].pc = "c_refresh" /\ procs[p].n = 3
        /\ \E l \in LinkByCode(procs[p].code) : l.id = procs[p].id /\ ~l.custom_code
        /\ Cardinality(links) = 2


\* C12 (as claimed): whatever Redis does, the write-through step of a
\* create_link whose row is committed ends the request with 201 and the
\* created link.
CacheFailureTolerated ==
    [][\A p \in Procs :
        (procs[p].pc = "c_cache" /\ procs'[p] # procs[p])
        => /\ resp'.op = "create" /\ resp'.status = 201
           /\ resp'.id = procs[p].id
           /\ LinkById(procs[p].id) # {}]_vars

\* C13 (as claimed): whatever Redis does, the cache lookup of a resolve never
\* ends the request with an error: the request is answered 302 or 404, or
\* goes on (to the store, or to evict an expired entry).
LookupFailureIsMiss ==
    [][\A c \in Codes :
        ResolveArrived(c) => resp' = NoResp \/ resp'.status \in {302, 404}]_vars


\* C14: update_link and delete_link answer 404 "Link not found" for a link id
\* with no row and 403 for a link of another user, and then leave links,
\* clicks and the cache as they were; only the owner of a stored link gets
\* past the checks.
RefusedLeavesAll ==
    [][/\ (resp'.op \in {"update", "delete"} /\ resp'.status \in {403, 404})
            => /\ links' = links /\ clicks' = clicks /\ cache' = cache
               /\ tasks' = tasks /\ nextId' = nextId
               /\ resp'.user # None
               /\ IF LinkById(resp'.id) = {}
                  THEN resp'.status = 404 /\ resp'.detail = "Link not found"
                  ELSE /\ resp'.status = 403
                       /\ \A l \in LinkById(resp'.id) : l.user_id # resp'.user
       /\ \A p \in Procs :
            (Free(p) /\ procs'[p].op \in {"update", "delete"})
            => \E l \in LinkById(procs'[p].id) : l.user_id = procs'[p].user
      ]_vars

\* C14 witness: a user who does not own a cached link with a recorded click
\* was just refused.
StrangerRefused ==
    /\ resp.op \in {"update", "delete"} /\ resp.status = 403
    /\ \E l \in LinkById(resp.id) :
          /\ l.user_id # resp.user
          /\ cache[l.short_code] # NoEntry
          /\ ClicksOf(l.id) # <<>>


\* C15 (as claimed): every 404 a resolve answers has the body of the 404 for a
\* short_code that never existed, {"detail": "Link not found"}, so a visitor
\* cannot tell an expired link from a missing one, on either path.
NotFoundIndistinguishable ==
    (resp.op = "resolve" /\ resp.status = 404) => resp.detail = "Link not found"


\* C16: in every reachable state, under any overlap of requests and jobs,
\* every row of clicks has the id of a stored link as link_id; a record_click
\* job that runs after its link was deleted adds no row.
ClicksReferenceLinks ==
    /\ \A i \in 1..Len(clicks) : LinkById(clicks[i].link_id) # {}
    /\ resp.op = "record_click" => ClicksOf(resp.id) = <<>>

\* C16 witness: the job of a redirect just ran after the link was deleted.
JobAfterDelete ==
    /\ resp.op = "record_click"
    /\ LinkById(resp.id) = {}
    /\ ClicksOf(resp.id) = <<>>

\* C17: a record_click job exists only for a 302 that was already sent; a job
\* that fails changes neither the answers given nor any request in flight,
\* adds no row, and leaves the queue one job shorter: it is not run again.
FailedJobDropped ==
    [][/\ resp'.op = "record_click"
            => /\ tasks[resp'.id] > 0
               /\ tasks' = [tasks EXCEPT ![resp'.id] = @ - 1]
               /\ redirects' = redirects /\ redirects[resp'.id] > 0
               /\ procs' = procs /\ started' = started
               /\ clicks' = clicks /\ links' = links /\ cache' = cache
       /\ \A i \in LinkIds : tasks'[i] + Len(ClicksOf(i)') <= redirects'[i]
      ]_vars

\* C17 witness: the only redirect of a link was answered, its job failed and
\* no job is left for the link.
JobFailedOnce ==
    /\ resp.op = "record_click" /\ resp.detail = "IntegrityError"
    /\ redirects[resp.id] = 1
    /\ tasks[resp.id] = 0


\* C18: a get_click_stats that missed the cache (requests served in turn)
\* returns total_clicks = n, the caller's click rows, and when all n were
\* recorded today also clicks_today = clicks_this_week = clicks_this_month = n;
\* it caches that object for 300 seconds. A request is computed from the store
\* only when no unexpired object is cached; one that hits returns the cached
\* object as it is, whatever clicks exist by then.
StatsFresh ==
    /\ (resp.op = "stats" /\ resp.via = "store") =>
        LET mine == user_clicks(resp.user)
            n == Len(mine)
        IN /\ resp.stats.total_clicks = n
           /\ (\A i \in 1..n : mine[i].clicked_at >= today_start(now))
                => resp.stats = [total_clicks |-> n, clicks_today |-> n,
                                 clicks_this_week |-> n, clicks_this_month |-> n,
                                 top_referrers |-> <<>>]
           /\ stats_cache[resp.user] =
                [value |-> stats_dumps(resp.stats), until |-> now + 300]
    /\ (resp.op = "stats" /\ resp.via = "cache") =>
        /\ now < stats_cache[resp.user].until
        /\ resp.stats = stats_loads(stats_cache[resp.user].value)
    /\ \A p \in Procs :
        procs[p].op = "stats" =>
            \/ stats_cache[procs[p].user] = NoStatsEntry
            \/ stats_cache[procs[p].user].until <= procs[p].at

\* C18 witness: a second request, later but within the window, was just
\* answered from the cache with the object computed when all of the caller's
\* clicks were of today, although a click was recorded since.
StatsServedStale ==
    /\ resp.op = "stats" /\ resp.via = "cache"
    /\ now > StatsStart
    /\ resp.stats.total_clicks > 0
    /\ resp.stats.clicks_today = resp.stats.total_clicks
    /\ resp.stats.clicks_this_week = resp.stats.total_clicks
    /\ resp.stats.clicks_this_month = resp.stats.total_clicks
    /\ Len(user_clicks(resp.user)) > resp.stats.total_clicks


ClickCarriesMetadata ==
    \A i \in 1..Len(clicks) :
        /\ clicks[i].referrer \in Referers
        /\ clicks[i].user_agent \in UserAgents
        /\ clicks[i].ip_address \in ClientIps


\* the request that arrives in this step is a registration of username u
RegisterArrived(u) ==
    /\ started' = started + 1
    /\ \/ resp'.op = "register" /\ resp'.user = u
       \/ \E p \in Procs : Free(p) /\ procs'[p].op = "register" /\ procs'[p].user = u

\* C21 (as claimed): register_user with a username that a row of users already
\* has answers 409 Conflict and adds no row.
DuplicateUsernameConflict ==
    [][\A u \in Usernames :
        (RegisterArrived(u) /\ UserByName(u) # {})
        => /\ resp'.op = "register" /\ resp'.status = 409
           /\ users' = users]_vars


\* C22 (as claimed): when a resolve that read the store has completed and no
\* request is in flight any more (an update_link that overlapped it has
\* completed too), the cache entry of the short_code is absent or is the
\* store's current {id, url, expires_at}, so a later resolve redirects to the
\* stored original_url.
StaleWindowCloses ==
    (/\ resp.op = "resolve" /\ resp.status = 302 /\ resp.via = "store"
     /\ \A p \in Procs : Free(p))
    => \A l \in LinkById(resp.id) :
          /\ \/ cache[l.short_code] = NoEntry
             \/ cache[l.short_code] = dumps(l.id, l.original_url, l.expires_at)
          /\ redirect_to_url(l.short_code).status = 302
                => redirect_to_url(l.short_code).url = l.original_url

\* C23 (as claimed): when a resolve that missed the cache has completed after
\* a delete_link of the same link and no request is in flight any more, the
\* cache has no entry for the short_code of the deleted link and a resolve of
\* it answers not-found.
DeletedNotCached ==
    (/\ resp.op = "resolve" /\ resp.status = 302 /\ resp.via = "store"
     /\ \A p \in Procs : Free(p)
     /\ LinkById(resp.id) = {})
    => /\ cache[resp.code] = NoEntry
       /\ LinkByCode(resp.code) = {} => redirect_to_url(resp.code).status = 404


\* C24 (as claimed): the cache step of an update_link that changed
\* original_url or expires_at deletes the entry of the link's short_code:
\* right after the update completes the cache holds no entry for it.
UpdateInvalidatesByDelete ==
    [][\A p \in Procs :
        (procs[p].pc = "u_cache" /\ procs'[p] # procs[p])
        => /\ resp'.op = "update" /\ resp'.status = 200
           /\ cache'[procs[p].code] = NoEntry]_vars


\* C25: right after a resolve that ended in "Link has expired" (requests
\* served in turn) the cache holds no entry for its short_code: the cache
\* path answers only after it has deleted the entry it found, and the store
\* path answers without having written one.
ExpiredLeavesNoEntry ==
    (resp.op = "resolve" /\ resp.status = 404 /\ resp.detail = "Link has expired")
    => /\ cache[resp.code] = NoEntry
       /\ resp.via \in {"cache", "store"}
       /\ \E l \in LinkByCode(resp.code) : Expired(l.expires_at)

\* C25 witness: the entry of an expired link was found in the cache and the
\* resolve that found it has just answered 404.
ExpiredEntryEvicted ==
    /\ resp.op = "resolve" /\ resp.status = 404 /\ resp.via = "cache"
    /\ resp.detail = "Link has expired"
    /\ cache[resp.code] = NoEntry
    /\ \E l \in LinkByCode(resp.code) : Expired(l.expires_at)


\* C26: a row of clicks is added only by a record_click job, one row per job,
\* and a job is scheduled only by the step of a resolve that answers 302, one
\* job per such answer, so the row is added after that answer was decided; a
\* resolve that answers 404 (not found or expired) schedules no job; hence
\* the click rows of a link never outnumber the 302 answers given for it.
ClicksOnlyFromRedirects ==
    [][/\ Len(clicks') > Len(clicks)
            => \E i \in LinkIds :
                /\ tasks[i] > 0 /\ redirects[i] > 0
                /\ tasks' = [tasks EXCEPT ![i] = @ - 1]
                /\ clicks' = Append(clicks, Click(i, now))
                /\ procs' = procs /\ redirects' = redirects
       /\ \A i \in LinkIds :
            tasks'[i] > tasks[i]
            => /\ tasks' = [tasks EXCEPT ![i] = @ + 1]
               /\ redirects' = [redirects EXCEPT ![i] = @ + 1]
               /\ resp'.op = "resolve" /\ resp'.status = 302 /\ resp'.id = i
               /\ clicks' = clicks
       /\ (resp'.op = "resolve" /\ resp'.status = 302)
            => /\ tasks'[resp'.id] = tasks[resp'.id] + 1
               /\ redirects'[resp'.id] = redirects[resp'.id] + 1
       /\ (resp'.op = "resolve" /\ resp'.status # 302)
            => tasks' = tasks /\ clicks' = clicks /\ redirects' = redirects
       /\ \A i \in LinkIds : Len(ClicksOf(i)') + tasks'[i] <= redirects'[i]
      ]_vars

\* C26 witness: a link was redirected to once and its click recorded; a later
\* resolve of it has just ended in "Link has expired" and no job is pending.
ExpiredResolveAddsNoClick ==
    /\ resp.op = "resolve" /\ resp.status = 404
    /\ \E l \in LinkByCode(resp.code) :
          /\ redirects[l.id] = 1
          /\ Len(ClicksOf(l.id)) = 1
          /\ tasks[l.id] = 0


\* C27: every short_code in table links, whether a custom code that passed
\* is_valid_custom_code or a candidate of generate_short_code(6), has 3 to 10
\* characters, all of them alphanumeric; a generated one has exactly 6.
StoredCodesWellFormed ==
    \A l \in links :
        /\ Len(l.short_code) >= 3 /\ Len(l.short_code) <= 10
        /\ \A i \in 1..Len(l.short_code) : l.short_code[i] \in Alphabet
        /\ ~l.custom_code => Len(l.short_code) = 6

\* C27 witness: a custom code and a generated code are stored and a create
\* with a custom code that has a character which is not alphanumeric was just
\* refused.
BothKindsStored ==
    /\ resp.op = "create" /\ resp.status = 400 /\ resp.code = a_c
    /\ \E l1 \in links, l2 \in links : l1.custom_code /\ ~l2.custom_code


\* C28: no step changes the short_code, the id or the owner of a stored link:
\* a row that is still stored after a step differs from what it was at most
\* in original_url, expires_at and updated_at, and only by the commit of an
\* update_link of that link; an update_link that supplies neither
\* original_url nor expires_at answers 200 at once and changes neither the
\* store nor the cache.
UpdateFrame ==
    [][/\ \A l \in links, l2 \in links' :
            l2.id = l.id
            => /\ l2 = [l EXCEPT !.original_url = l2.original_url,
                                 !.expires_at = l2.expires_at,
                                 !.updated_at = l2.updated_at]
               /\ l2 # l => \E p \in Procs : /\ procs[p].pc = "u_commit"
                                             /\ procs[p].id = l.id
                                             /\ procs'[p].pc = "u_refresh"
       /\ (started' = started + 1 /\ resp'.op = "update" /\ resp'.status = 200)
            => /\ links' = links /\ cache' = cache /\ clicks' = clicks
               /\ \A p \in Procs : procs'[p] = procs[p]
      ]_vars

\* C28 witness: the commit of an update_link has just written a new
\* original_url to a link that keeps its short_code and its owner.
UrlRewritten ==
    \E p \in Procs :
        /\ procs[p].pc = "u_refresh" /\ procs[p].url # None
        /\ \E l \in LinkById(procs[p].id) :
              /\ l.original_url = procs[p].url
              /\ l.updated_at = "later"
              /\ l.short_code = procs[p].code
              /\ l.user_id = procs[p].user


\* C29 (as claimed): every stats object that get_click_stats computes from
\* the store satisfies clicks_today <= clicks_this_week <= clicks_this_month
\* <= total_clicks, also when record_click jobs and delete_link requests run
\* between its four count queries.
StatsMonotone ==
    (resp.op = "stats" /\ resp.via = "store")
    => /\ resp.stats.clicks_today <= resp.stats.clicks_this_week
       /\ resp.stats.clicks_this_week <= resp.stats.clicks_this_month
       /\ resp.stats.clicks_this_month <= resp.stats.total_clicks

====
